---- MODULE Spec2Model ----
(***************************************************************************)
(* Model of scancode-rs: the ScancodeLicense record codec (src/models.rs)  *)
(* and the license database importer (src/import.rs).                      *)
(*                                                                         *)
(* A metadata document is modelled at the level of the YAML data model: a  *)
(* function from keys to nodes.  A node is a string scalar, an integer     *)
(* scalar, a null scalar or a sequence of strings.  Content equality of    *)
(* two documents is equality of these functions (key order is not part of  *)
(* a function).                                                            *)
(***************************************************************************)
EXTENDS Integers, Sequences, FiniteSets, TLC

VARIABLES
    \* ---- codec run: decode / load, encode, decode again
    doc,        \* the input metadata document
    companion,  \* the companion .LICENSE file from_yaml_file met, <<>> when none
    cpc,        \* position of the codec run
    viaFile,    \* TRUE when the record was built by from_yaml_file
    rec,        \* Result of the first decode
    out,        \* the encoded document
    rec2,       \* Result of decoding the encoded document
    \* ---- import run: from_git_database
    fs,             \* the repository directory: file name -> contents
    listing,        \* what read_dir yields, in listing order
    pc,             \* position of from_git_database
    tempdirExists,  \* the ephemeral clone directory exists on disk
    idx,            \* number of listing items consumed by the for loop
    licenses,       \* the local Vec<ScancodeLicense>
    decoded,        \* paths handed to from_yaml_file, in order
    result          \* what from_git_database returned

codecVars == <<doc, companion, cpc, viaFile, rec, out, rec2>>
importVars == <<fs, listing, pc, tempdirExists, idx, licenses, decoded, result>>
vars == <<doc, companion, cpc, viaFile, rec, out, rec2,
          fs, listing, pc, tempdirExists, idx, licenses, decoded, result>>

\* ------------------------------------------------------------------ bounds
\* number of places in which an input document departs from the base document
MaxEdits == 2
\* number of items the directory listing yields
MaxEntries == 3

\* ------------------------------------------------------------------ YAML nodes
StrN(s) == [kind |-> "str", s |-> s, n |-> 0, items |-> <<>>]
IntN(n) == [kind |-> "int", s |-> "", n |-> n, items |-> <<>>]
\* an integer scalar that does not fit in 32 bits
BigInt == [kind |-> "bigint", s |-> "", n |-> 0, items |-> <<>>]
Null == [kind |-> "null", s |-> "", n |-> 0, items |-> <<>>]
SeqN(items) == [kind |-> "seq", s |-> "", n |-> 0, items |-> items]

\* Option<T>: <<>> is None, <<v>> is Some(v)
None == <<>>
Some(v) == <<v>>

\* Result of a fallible conversion
Ok(v) == [ok |-> TRUE, v |-> v]
Err(e) == [ok |-> FALSE, e |-> e]
Fail == [ok |-> FALSE]

\* ------------------------------------------------------------------ schema
RequiredStrFields == {"key", "short_name", "name", "owner"}
OptStrFields ==
    {"homepage_url", "notes", "spdx_license_key", "osi_url", "osi_license_key",
     "faq_url", "standard_notice", "language"}
YesFields == {"is_deprecated", "is_exception"}
VecFields ==
    {"text_urls", "other_urls", "other_spdx_license_keys", "ignorable_copyrights",
     "ignorable_holders", "ignorable_authors", "ignorable_urls", "ignorable_emails"}
OptIntFields == {"minimum_coverage"}
RequiredFields == RequiredStrFields \cup {"category"}
\* #[serde(skip)] pub text: the field takes no part in either direction
SkippedFields == {"text"}
StructFields ==
    RequiredFields \cup OptStrFields \cup YesFields \cup VecFields
        \cup OptIntFields \cup SkippedFields
\* the field names the derived Deserialize / Serialize impls know
SerdeFields == StructFields \ SkippedFields

\* #[serde(deny_unknown_fields)]
NoDenyUnknownFields == FALSE
DenyUnknownFields == TRUE

\* enum Category: variant -> external label
CategoryLabel ==
    [Copyleft |-> "Copyleft",
     CopyleftLimited |-> "Copyleft Limited",
     PatentLicense |-> "Patent License",
     Permissive |-> "Permissive",
     PublicDomain |-> "Public Domain",
     Commercial |-> "Commercial",
     ProprietaryFree |-> "Proprietary Free",
     FreeRestricted |-> "Free Restricted",
     SourceAvailable |-> "Source-available",
     UnstatedLicense |-> "Unstated License"]
Category == DOMAIN CategoryLabel
CategoryLabels == {CategoryLabel[c] : c \in Category}

\* ------------------------------------------------------------------ field codecs
\* String::deserialize on the nodes the sample documents hold in string
\* positions: a string scalar is taken as it is, a sequence is a type error.
DeString(node) == IF node.kind = "str" THEN Ok(node.s) ELSE Fail

\* Option<String>: a null scalar is None, anything else goes to String.
DeOptString(node) ==
    IF node.kind = "null" THEN Ok(None)
    ELSE IF DeString(node).ok THEN Ok(Some(DeString(node).v)) ELSE Fail

\* Option<i32>: an "int" node is within the 32-bit range, a "bigint" node is not
DeOptI32(node) ==
    IF node.kind = "null" THEN Ok(None)
    ELSE IF node.kind = "int" THEN Ok(Some(node.n)) ELSE Fail

\* Vec<String>
DeVecString(node) == IF node.kind = "seq" THEN Ok(node.items) ELSE Fail

\* Category: the scalar must be one of the external labels exactly
DeCategory(node) ==
    IF node.kind = "str" /\ node.s \in CategoryLabels
    THEN Ok(CHOOSE c \in Category : CategoryLabel[c] = node.s)
    ELSE Fail

\* fn bool_from_yes
TruthyBoolFromYes(node) ==
    IF ~DeString(node).ok THEN Fail
    ELSE IF DeString(node).v = "no" THEN Ok(FALSE) ELSE Ok(TRUE)
BoolFromYes(node) ==
    IF ~DeString(node).ok THEN Fail
    ELSE IF DeString(node).v = "yes" THEN Ok(TRUE) ELSE Ok(FALSE)

\* fn yes_from_bool
NativeFromBool(boolean) == IF boolean THEN StrN("true") ELSE StrN("false")
YesFromBool(boolean) == IF boolean THEN StrN("yes") ELSE StrN("no")

\* fn is_false
NeverSkip(boolean) == FALSE
IsFalse(boolean) == boolean = FALSE

\* Default::default() of a field that has #[serde(default)] (and of text)
FieldDefault(k) ==
    IF k \in YesFields THEN FALSE
    ELSE IF k \in SkippedFields THEN ""
    ELSE <<>>

\* the deserializer each field of the struct is given
FieldDe(k, node) ==
    IF k \in RequiredStrFields THEN DeString(node)
    ELSE IF k = "category" THEN DeCategory(node)
    ELSE IF k \in OptStrFields THEN DeOptString(node)
    ELSE IF k \in YesFields THEN BoolFromYes(node)
    ELSE IF k \in VecFields THEN DeVecString(node)
    ELSE DeOptI32(node)

\* skip_serializing_if of each field
SkipSerializingIf(k, v) ==
    IF k \in OptStrFields \cup OptIntFields THEN v = None
    ELSE IF k \in VecFields THEN v = <<>>
    ELSE IF k \in YesFields THEN IsFalse(v)
    ELSE FALSE

\* the serializer each field of the struct is given
FieldSerVariantName(k, v) ==
    IF k \in RequiredStrFields THEN StrN(v)
    ELSE IF k = "category" THEN StrN(v)
    ELSE IF k \in OptStrFields THEN StrN(v[1])
    ELSE IF k \in YesFields THEN YesFromBool(v)
    ELSE IF k \in VecFields THEN SeqN(v)
    ELSE IntN(v[1])
FieldSer(k, v) ==
    IF k \in RequiredStrFields THEN StrN(v)
    ELSE IF k = "category" THEN StrN(CategoryLabel[v])
    ELSE IF k \in OptStrFields THEN StrN(v[1])
    ELSE IF k \in YesFields THEN YesFromBool(v)
    ELSE IF k \in VecFields THEN SeqN(v)
    ELSE IntN(v[1])

\* serde_yaml::from_str::<ScancodeLicense>
Decode(d) ==
    IF DenyUnknownFields /\ \E k \in DOMAIN d : k \notin SerdeFields THEN Fail
    ELSE IF \E k \in DOMAIN d \cap SerdeFields : ~FieldDe(k, d[k]).ok THEN Fail
    ELSE IF \E k \in RequiredFields : k \notin DOMAIN d THEN Fail
    ELSE Ok([k \in StructFields |->
                IF k \in SerdeFields /\ k \in DOMAIN d
                THEN FieldDe(k, d[k]).v ELSE FieldDefault(k)])

\* serde_yaml::to_string(&license)
Encode(r) ==
    [k \in {f \in SerdeFields : ~SkipSerializingIf(f, r[f])} |-> FieldSer(k, r[k])]

\* ------------------------------------------------------------------ files
\* A file name is a stem and an optional extension (Path::extension).
File(stem, ext) == [stem |-> stem, ext |-> ext]
\* Path::with_extension
WithExtension(p, ext) == [p EXCEPT !.ext = Some(ext)]

\* Contents of a file: whether it can be read as UTF-8 text, the text, and
\* what the text parses to as YAML (None when it is no YAML mapping).
Unreadable == [readable |-> FALSE, text |-> "", yaml |-> None]
TextFile(t) == [readable |-> TRUE, text |-> t, yaml |-> None]
YamlFile(d) == [readable |-> TRUE, text |-> "yaml", yaml |-> Some(d)]

\* std::fs::read_to_string
ReadToString(files, p) ==
    IF p \in DOMAIN files /\ files[p].readable THEN Ok(files[p]) ELSE Fail

\* serde_yaml::from_str on the contents of a file
FromStr(content) == IF content.yaml = None THEN Fail ELSE Decode(content.yaml[1])

\* enum ScancodeError: the variant and the path it carries, if any.  No
\* variant has a field for a URL.
ScancodeError(variant, path) == [variant |-> variant, path |-> path, url |-> None]

\* license.text = match license_text { Ok(value) => value, Err(_) => "".into() }
CompanionOrFail(license, licenseText) ==
    IF licenseText.ok THEN Ok([license EXCEPT !["text"] = licenseText.v.text])
    ELSE Err(ScancodeError("Io", None))
CompanionOrEmpty(license, licenseText) ==
    Ok([license EXCEPT !["text"] = IF licenseText.ok THEN licenseText.v.text ELSE ""])

\* ScancodeLicense::from_yaml_file
FromYamlFile(files, yamlPath) ==
    LET licenseString == ReadToString(files, yamlPath) IN
    IF ~licenseString.ok THEN Err(ScancodeError("Io", Some(yamlPath)))
    ELSE LET license == FromStr(licenseString.v) IN
         IF ~license.ok THEN Err(ScancodeError("SerdeYaml", Some(yamlPath)))
         ELSE LET textPath == WithExtension(yamlPath, "LICENSE") IN
              CompanionOrEmpty(license.v, ReadToString(files, textPath))

\* ------------------------------------------------------------------ input documents
BaseDoc ==
    [key |-> StrN("k"), short_name |-> StrN("s"), name |-> StrN("n"),
     category |-> StrN("Permissive"), owner |-> StrN("o")]

\* The nodes a document may hold under a key: for every field its valid values,
\* and for one field of each type a node of the wrong type as well.
NodesFor(k) ==
    IF k \in RequiredStrFields
    THEN IF k = "owner" THEN {StrN("")} ELSE IF k = "key" THEN {SeqN(<<"a">>)} ELSE {}
    ELSE IF k = "category" THEN {StrN(l) : l \in CategoryLabels \cup {"CopyleftLimited"}}
    ELSE IF k \in OptStrFields
         THEN {StrN("a"), Null}
                \cup (IF k = "notes" THEN {StrN(""), SeqN(<<"a">>)} ELSE {})
    ELSE IF k \in YesFields
         THEN {StrN("yes"), StrN("no"), StrN(""), StrN("maybe"), SeqN(<<"a">>)}
    ELSE IF k \in VecFields
         THEN {SeqN(<<>>), SeqN(<<"a">>)}
                \cup (IF k = "text_urls" THEN {SeqN(<<"a", "b">>), StrN("a")} ELSE {})
    ELSE IF k \in OptIntFields
         THEN {IntN(0), IntN(80), BigInt, Null, StrN("a")}
    ELSE {StrN("T")}

UnknownKeys == {"text", "bogus"}

Edits ==
    UNION {{[op |-> "set", k |-> k, node |-> nd] : nd \in NodesFor(k)} :
              k \in SerdeFields \cup UnknownKeys}
    \cup {[op |-> "del", k |-> k, node |-> Null] : k \in RequiredFields}

ApplyEdit(d, e) ==
    IF e.op = "set"
    THEN [x \in DOMAIN d \cup {e.k} |-> IF x = e.k THEN e.node ELSE d[x]]
    ELSE [x \in DOMAIN d \ {e.k} |-> d[x]]

RECURSIVE DocsWithin(_)
DocsWithin(n) ==
    IF n = 0 THEN {BaseDoc}
    ELSE LET P == DocsWithin(n - 1) IN
         P \cup {ApplyEdit(d, e) : d \in P, e \in Edits}

Docs == DocsWithin(MaxEdits)
Companions == {None, Some(Unreadable), Some(TextFile("T"))}

\* ------------------------------------------------------------------ codec run
YmlPath == File("a", Some("yml"))
CodecFiles(d, c) ==
    LET p == WithExtension(YmlPath, "LICENSE") IN
    [x \in {YmlPath} \cup (IF c = None THEN {} ELSE {p}) |->
        IF x = YmlPath THEN YamlFile(d) ELSE c[1]]

\* let license: ScancodeLicense = serde_yaml::from_str(..)
DecodeStep ==
    /\ cpc = "start"
    /\ rec' = Decode(doc)
    /\ viaFile' = FALSE
    /\ cpc' = IF rec'.ok THEN "decoded" ELSE "failed"
    /\ UNCHANGED <<doc, companion, out, rec2>>

\* let license = ScancodeLicense::from_yaml_file(path)?, with the companion
\* file in the state the file system has it in
LoadStep ==
    /\ cpc = "start"
    /\ \E c \in Companions :
          /\ companion' = c
          /\ rec' = FromYamlFile(CodecFiles(doc, c), YmlPath)
    /\ viaFile' = TRUE
    /\ cpc' = IF rec'.ok THEN "decoded" ELSE "failed"
    /\ UNCHANGED <<doc, out, rec2>>

\* serde_yaml::to_string(&license)
EncodeStep ==
    /\ cpc = "decoded"
    /\ out' = Encode(rec.v)
    /\ cpc' = "encoded"
    /\ UNCHANGED <<doc, companion, viaFile, rec, rec2>>

\* serde_yaml::from_str on the encoded document
RedecodeStep ==
    /\ cpc = "encoded"
    /\ rec2' = Decode(out)
    /\ cpc' = "redecoded"
    /\ UNCHANGED <<doc, companion, viaFile, rec, out>>

ImportIdle ==
    /\ fs = <<>>
    /\ listing = <<>>
    /\ pc = "idle"
    /\ tempdirExists = FALSE
    /\ idx = 0
    /\ licenses = <<>>
    /\ decoded = <<>>
    /\ result = Fail

InitCodec ==
    /\ doc \in Docs
    /\ companion = None
    /\ cpc = "start"
    /\ viaFile = FALSE
    /\ rec = Fail
    /\ out = <<>>
    /\ rec2 = Fail
    /\ ImportIdle

NextCodec ==
    \/ DecodeStep /\ UNCHANGED importVars
    \/ LoadStep /\ UNCHANGED importVars
    \/ EncodeStep /\ UNCHANGED importVars
    \/ RedecodeStep /\ UNCHANGED importVars

SpecCodec == InitCodec /\ [][NextCodec]_vars

\* ------------------------------------------------------------------ import run
\* tempdir.path().join(path_in_repo)
LicensesPath == File("docs", None)

\* DirEntry::file_name() == "index.yml"
NeverIndex(p) == FALSE
IsIndex(p) == p.stem = "index" /\ p.ext = Some("yml")

\* path.path().extension() == Some(OsStr::new("yml"))
HasYmlExtension(p) == p.ext = Some("yml")

\* TempDir's Drop, run when from_git_database returns: the directory is removed
KeepTempDir(exists) == exists
DropTempDir(exists) == FALSE

\* what one pass of the for loop body decides
Continue(lics, read) == [ctl |-> "continue", licenses |-> lics, read |-> read, e |-> None]
Return(e, read) == [ctl |-> "return", licenses |-> <<>>, read |-> read, e |-> Some(e)]

\* let license = ScancodeLicense::from_yaml_file(&path.path())?; licenses.push(license);
PushOrSkip(lics, p, r) ==
    IF r.ok THEN Continue(Append(lics, r.v), Some(p)) ELSE Continue(lics, Some(p))
PushOrReturn(lics, p, r) ==
    IF r.ok THEN Continue(Append(lics, r.v), Some(p)) ELSE Return(r.e, Some(p))

\* the body of `for path in licenses_dir`
LoopBody(files, item, lics) ==
    IF ~item.ok THEN Return(ScancodeError("OtherIo", None), None)
    ELSE IF IsIndex(item.v) THEN Continue(lics, None)
    ELSE IF HasYmlExtension(item.v)
         THEN PushOrReturn(lics, item.v, FromYamlFile(files, item.v))
    ELSE Continue(lics, None)

\* let tempdir = tempdir()?;
TempDirStep ==
    /\ pc = "start"
    /\ \/ /\ tempdirExists' = TRUE
          /\ pc' = "tempdir"
          /\ UNCHANGED result
       \/ /\ result' = Err(ScancodeError("OtherIo", None))
          /\ pc' = "done"
          /\ UNCHANGED tempdirExists
    /\ UNCHANGED <<fs, listing, idx, licenses, decoded>>

\* Repository::clone(url, tempdir.path())?;
CloneStep ==
    /\ pc = "tempdir"
    /\ \/ /\ pc' = "cloned"
          /\ UNCHANGED <<result, tempdirExists>>
       \/ /\ result' = Err(ScancodeError("Git", None))
          /\ pc' = "done"
          /\ tempdirExists' = DropTempDir(tempdirExists)
    /\ UNCHANGED <<fs, listing, idx, licenses, decoded>>

\* let licenses_dir = read_dir(&licenses_path).map_err(..)?;
ReadDirStep ==
    /\ pc = "cloned"
    /\ \/ /\ pc' = "walking"
          /\ UNCHANGED <<result, tempdirExists>>
       \/ /\ result' = Err(ScancodeError("Io", Some(LicensesPath)))
          /\ pc' = "done"
          /\ tempdirExists' = DropTempDir(tempdirExists)
    /\ UNCHANGED <<fs, listing, idx, licenses, decoded>>

\* one pass of the for loop
LoopStep ==
    /\ pc = "walking"
    /\ idx < Len(listing)
    /\ LET b == LoopBody(fs, listing[idx + 1], licenses) IN
        /\ idx' = idx + 1
        /\ decoded' = decoded \o b.read
        /\ IF b.ctl = "continue"
           THEN /\ licenses' = b.licenses
                /\ UNCHANGED <<pc, result, tempdirExists>>
           ELSE /\ result' = Err(b.e[1])
                /\ pc' = "done"
                /\ tempdirExists' = DropTempDir(tempdirExists)
                /\ UNCHANGED licenses
    /\ UNCHANGED <<fs, listing>>

\* Ok(licenses)
ReturnStep ==
    /\ pc = "walking"
    /\ idx = Len(listing)
    /\ result' = Ok(licenses)
    /\ pc' = "done"
    /\ tempdirExists' = DropTempDir(tempdirExists)
    /\ UNCHANGED <<fs, listing, idx, licenses, decoded>>

\* ------------------------------------------------------------------ repositories
ExceptionDoc == ApplyEdit(BaseDoc, [op |-> "set", k |-> "is_exception", node |-> StrN("yes")])
UnknownKeyDoc == ApplyEdit(BaseDoc, [op |-> "set", k |-> "bogus", node |-> StrN("a")])

ContentsFor(p) ==
    IF IsIndex(p) THEN {TextFile("- a"), YamlFile(BaseDoc)}
    ELSE IF p.ext = Some("yml")
         THEN {YamlFile(BaseDoc), YamlFile(ExceptionDoc), YamlFile(UnknownKeyDoc),
               Unreadable}
    ELSE IF p.ext = Some("LICENSE") THEN {TextFile("T"), Unreadable}
    ELSE {TextFile("T")}

FileNames ==
    {File("index", Some("yml")), File("a", Some("yml")), File("b", Some("yml")),
     File("c", Some("yml")), File("a", Some("LICENSE")), File("b", Some("LICENSE")),
     File("README", Some("md")), File("yml", None)}

\* what read_dir may yield for one entry: the entry, or an error
DirItems ==
    {Fail} \cup UNION {{Ok([path |-> p, content |-> c]) : c \in ContentsFor(p)} :
                         p \in FileNames}

Listed(repo) == {repo[i].v.path : i \in {j \in DOMAIN repo : repo[j].ok}}

\* a directory holds each file name once
Distinct(repo) ==
    \A i, j \in DOMAIN repo :
        (i < j /\ repo[i].ok /\ repo[j].ok) => repo[i].v.path # repo[j].v.path

CodecIdle ==
    /\ doc = BaseDoc
    /\ companion = None
    /\ cpc = "idle"
    /\ viaFile = FALSE
    /\ rec = Fail
    /\ out = <<>>
    /\ rec2 = Fail

InitImport ==
    /\ \E n \in 0..MaxEntries : \E repo \in [1..n -> DirItems] :
          /\ Distinct(repo)
          /\ fs = [p \in Listed(repo) |->
                     repo[CHOOSE i \in DOMAIN repo :
                            repo[i].ok /\ repo[i].v.path = p].v.content]
          /\ listing = [i \in DOMAIN repo |->
                          IF repo[i].ok THEN Ok(repo[i].v.path) ELSE Fail]
    /\ pc = "start"
    /\ tempdirExists = FALSE
    /\ idx = 0
    /\ licenses = <<>>
    /\ decoded = <<>>
    /\ result = Fail
    /\ CodecIdle

NextImport ==
    \/ TempDirStep /\ UNCHANGED codecVars
    \/ CloneStep /\ UNCHANGED codecVars
    \/ ReadDirStep /\ UNCHANGED codecVars
    \/ LoopStep /\ UNCHANGED codecVars
    \/ ReturnStep /\ UNCHANGED codecVars

SpecImport == InitImport /\ [][NextImport]_vars

\* ================================================================== properties
Range(s) == {s[i] : i \in DOMAIN s}
Without(d, ks) == [x \in DOMAIN d \ ks |-> d[x]]
Encoded == cpc \in {"encoded", "redecoded"}
Decoded == cpc \in {"decoded", "encoded", "redecoded", "failed"}

\* C1: a record that serde_yaml::from_str returned is decoded again from its
\* own encoding, and the record decoded again equals it field by field.
C1_RoundTrip ==
    (cpc = "redecoded" /\ ~viaFile) => (rec2.ok /\ rec2.v = rec.v)

C1_Witness ==
    /\ cpc = "redecoded" /\ ~viaFile
    /\ rec.v["is_exception"] = TRUE
    /\ rec.v["text_urls"] = <<"a", "b">>
    /\ rec.v["homepage_url"] = None
    /\ rec2.ok

\* every is_deprecated / is_exception value of the document is "yes" or "no"
YesNoOnly(d) == \A k \in YesFields \cap DOMAIN d : d[k] \in {StrN("yes"), StrN("no")}

\* C2 as stated: for a valid document whose is_deprecated and is_exception
\* values are "yes" or "no", the encoding of the decoded record is content-equal
\* to the document.
C2_Original == (Encoded /\ YesNoOnly(doc)) => out = doc

\* no key of the document holds the default of its field
NoDefaults(d) ==
    \A k \in DOMAIN d :
        /\ d[k] # Null
        /\ d[k] # SeqN(<<>>)
        /\ k \in YesFields => d[k] = StrN("yes")

\* C2 amended: for a valid document in which no key holds its field's default
\* (is_deprecated and is_exception, where present, are "yes"; no key is null; no
\* sequence is empty), the encoding of the decoded record is content-equal to
\* the document.
C2_Amended == (Encoded /\ NoDefaults(doc)) => out = doc

C2_Witness ==
    /\ Encoded
    /\ NoDefaults(doc)
    /\ "is_deprecated" \in DOMAIN doc
    /\ "category" \in DOMAIN doc /\ doc["category"] = StrN("Copyleft Limited")
    /\ out = doc

\* decoding the two flags: "yes" is true, every other string is false, and a
\* string there never makes the decode fail
YesDecode ==
    Decoded =>
        \A k \in YesFields \cap DOMAIN doc :
            (doc[k].kind = "str" /\ Decode(Without(doc, {k})).ok)
                => (rec.ok /\ rec.v[k] = (doc[k].s = "yes"))

\* C3 as stated: "yes" decodes to true and any other string to false; a record
\* whose flag is true is encoded with "yes" for it, and a record whose flag is
\* false is encoded with "no" for it.
C3_Original ==
    /\ YesDecode
    /\ Encoded =>
          \A k \in YesFields :
              /\ k \in DOMAIN out
              /\ out[k] = IF rec.v[k] THEN StrN("yes") ELSE StrN("no")

\* C3 amended: "yes" decodes to true and any other string to false; a record
\* whose flag is true is encoded with "yes" for it, and a record whose flag is
\* false is encoded without the key (no "no" is ever written).
C3_Amended ==
    /\ YesDecode
    /\ Encoded =>
          \A k \in YesFields :
              IF rec.v[k] THEN k \in DOMAIN out /\ out[k] = StrN("yes")
              ELSE k \notin DOMAIN out

C3_Witness ==
    /\ Encoded
    /\ "is_exception" \in DOMAIN doc /\ doc["is_exception"] = StrN("maybe")
    /\ "is_deprecated" \in DOMAIN doc /\ doc["is_deprecated"] = StrN("yes")
    /\ rec.v["is_exception"] = FALSE
    /\ rec.v["is_deprecated"] = TRUE
    /\ out["is_deprecated"] = StrN("yes")
    /\ "is_exception" \notin DOMAIN out

\* C4: the encoded document has no key for an absent optional field, an empty
\* sequence field or a false flag, and never has the key text.
C4_DefaultOmission ==
    Encoded =>
        /\ "text" \notin DOMAIN out
        /\ \A k \in OptStrFields \cup OptIntFields :
              rec.v[k] = None => k \notin DOMAIN out
        /\ \A k \in VecFields : rec.v[k] = <<>> => k \notin DOMAIN out
        /\ \A k \in YesFields : rec.v[k] = FALSE => k \notin DOMAIN out
        /\ \A k \in DOMAIN out : out[k] \notin {Null, SeqN(<<>>), StrN("no")}

C4_Witness ==
    /\ Encoded /\ viaFile
    /\ rec.v["text"] = "T"
    /\ "is_deprecated" \in DOMAIN doc /\ doc["is_deprecated"] = StrN("no")
    /\ "other_urls" \in DOMAIN doc /\ doc["other_urls"] = SeqN(<<>>)
    /\ DOMAIN out = RequiredFields

\* C5: a document with a key outside the schema, the key text included, is
\* never decoded to a record.
C5_UnknownFieldRejected ==
    (Decoded /\ \E k \in DOMAIN doc : k \notin StructFields \/ k = "text") => ~rec.ok

C5_Witness ==
    /\ cpc = "failed"
    /\ doc = [x \in DOMAIN BaseDoc \cup {"text"} |->
                IF x = "text" THEN StrN("T") ELSE BaseDoc[x]]

\* the positions of the listing that hold a malformed metadata document
BadAt ==
    {i \in DOMAIN listing :
        /\ listing[i].ok
        /\ listing[i].v.ext = Some("yml")
        /\ listing[i].v.stem # "index"
        /\ fs[listing[i].v] = YamlFile(UnknownKeyDoc)}

\* C6: with exactly one malformed metadata document in the listing, the import
\* returns an error and no collection, and nothing listed after the malformed
\* entry is decoded.
C6_FailFast ==
    Cardinality(BadAt) = 1 =>
        /\ pc = "done" => (~result.ok /\ "v" \notin DOMAIN result)
        /\ \A i \in BadAt : \A j \in DOMAIN listing :
              (j > i /\ listing[j].ok) => listing[j].v \notin Range(decoded)

C6_Witness ==
    /\ pc = "done"
    /\ Len(listing) = 3
    /\ BadAt = {2}
    /\ listing[3].ok /\ listing[3].v.ext = Some("yml") /\ listing[3].v.stem # "index"
    /\ Len(licenses) = 1
    /\ ~result.ok /\ result.e.variant = "SerdeYaml"

\* C7 as stated: a clone failure carries the repository URL; a directory-listing
\* failure, a failure while iterating the listing, and a per-record read or
\* decode failure carry the file path.
C7_ErrorsCarryOrigin ==
    (pc = "done" /\ ~result.ok) =>
        IF result.e.variant = "Git" THEN result.e.url # None
        ELSE IF result.e.variant = "OtherIo" /\ idx = 0 THEN TRUE
        ELSE result.e.path # None

\* C8: from_yaml_file of a valid document succeeds whatever the state of the
\* companion file; text is the companion's contents when it is readable and ""
\* otherwise, and every other field is as decoded from the document.
C8_CompanionTolerance ==
    LET meta == Decode(doc) IN
    (Decoded /\ viaFile /\ meta.ok) =>
        /\ rec.ok
        /\ rec.v["text"] =
              IF companion # None /\ companion[1].readable THEN companion[1].text ELSE ""
        /\ \A k \in StructFields \ {"text"} : rec.v[k] = meta.v[k]

C8_Witness ==
    /\ cpc = "decoded" /\ viaFile
    /\ companion = None
    /\ rec.ok /\ rec.v["text"] = ""
    /\ rec.v["is_exception"] = TRUE

\* C9: when from_git_database has returned, the clone directory does not
\* exist; it exists from its creation until then.
C9_TempDirRemoved ==
    /\ pc = "done" => ~tempdirExists
    /\ pc \in {"tempdir", "cloned", "walking"} => tempdirExists

C9_Witness ==
    /\ pc = "done"
    /\ ~result.ok /\ result.e.variant = "SerdeYaml"
    /\ Len(licenses) >= 1
    /\ ~tempdirExists

IsMetadataItem(it) ==
    it.ok /\ it.v.ext = Some("yml") /\ ~(it.v.stem = "index" /\ it.v.ext = Some("yml"))

\* C10: a successful import returns one record per listed entry with extension
\* yml other than index.yml, in listing order; index.yml and entries with
\* another extension are never handed to from_yaml_file.
C10_Collection ==
    /\ (pc = "done" /\ result.ok) =>
          LET sel == SelectSeq(listing, IsMetadataItem) IN
          /\ Len(result.v) = Len(sel)
          /\ \A i \in DOMAIN sel : result.v[i] = FromYamlFile(fs, sel[i].v).v
          /\ decoded = [i \in DOMAIN sel |-> sel[i].v]
    /\ \A p \in Range(decoded) :
          p.ext = Some("yml") /\ ~(p.stem = "index" /\ p.ext = Some("yml"))

C10_Witness ==
    /\ pc = "done" /\ result.ok
    /\ Len(listing) = 3
    /\ listing[1] = Ok(File("index", Some("yml")))
    /\ fs[File("index", Some("yml"))] = TextFile("- a")
    /\ listing[2] = Ok(File("README", Some("md")))
    /\ Len(result.v) = 1
    /\ result.v[1]["is_exception"] = TRUE

====
